---- MODULE Spec2Model ----
(***************************************************************************)
(* Model of the rumble dashboard (src/app.js): the aggregation functions,  *)
(* the load cycle of initDashboard and the per-card sort state.            *)
(*                                                                         *)
(* Strings that the code sorts, joins, strips or searches (player names,   *)
(* team identities, power-up names, card ids) are sequences of UTF-16 code *)
(* units, so that sort(), join(), replace() and includes() are computed    *)
(* and not assumed.  JavaScript objects used as dictionaries are sequences *)
(* of entries [k, v] in insertion order, which is the order Object.keys,   *)
(* Object.values and Object.entries enumerate non-numeric keys in.         *)
(*                                                                         *)
(* src/app.js holds two variants of the script one after the other (lines  *)
(* 1-587 and 588-1154).  Definitions are taken from the second variant;    *)
(* those of the first variant carry the suffix V1.                         *)
(***************************************************************************)
EXTENDS Integers, Sequences, FiniteSets, TLC

VARIABLES
    events,                 \* the event records held by the page
    matches,                \* the match records held by the page
    ret,                    \* the value returned / rendered by the last function call
    pc,                     \* position of initDashboard
    eventsReq,              \* state of the powerup_events request
    matchesReq,             \* state of the match_results request
    alerts,                 \* number of alert() calls so far
    loads,                  \* number of initDashboard calls so far
    GLOBAL_PLAYER_STATS,
    GLOBAL_TEAM_STATS,
    CARD_SORT_STATE,
    dom,                    \* card id -> the card element in the document
    lastClick,              \* the last handleSort since the cards were built
    db,                     \* the two tables of the remote data source
    page,                   \* element id -> what the load rendered into it
    steps                   \* the render steps run by the current load cycle

vars == <<events, matches, ret, pc, eventsReq, matchesReq, alerts, loads,
          GLOBAL_PLAYER_STATS, GLOBAL_TEAM_STATS, CARD_SORT_STATE, dom, lastClick,
          db, page, steps>>

-----------------------------------------------------------------------------
(* Strings *)

sUnknown == <<85,110,107,110,111,119,110>>          \* "Unknown"
sAmp == <<32,38,32>>                                \* " & "
sNone == <<78,111,110,101>>                         \* "None"
sKaktus == <<75,97,107,116,117,115>>
sNogica == <<78,111,103,105,99,97>>
sMagnet == <<77,97,103,110,101,116>>
sSaka == <<83,97,107,97>>
sVentilator == <<86,101,110,116,105,108,97,116,111,114>>
sPlunger == <<80,108,117,110,103,101,114>>
sBetman == <<66,101,116,109,97,110>>
sTeleport == <<84,101,108,101,112,111,114,116>>
sFreeze == <<70,114,101,101,122,101>>
sSakica == <<83,97,107,105,99,97>>
sBoost == <<66,111,111,115,116>>
sSpikes == <<83,112,105,107,101,115>>               \* a power-up outside POWERUP_COLORS
sPlayerDash == <<112,108,97,121,101,114,45>>        \* "player-"
sTeamDash == <<116,101,97,109,45>>                  \* "team-"
nmA == <<65>>                                       \* "A"
nmB == <<66>>                                       \* "B"
nmC == <<67>>                                       \* "C"

\* a < b for strings, as the relational operators and the default sort compare
\* them: by code units, a proper prefix first.
RECURSIVE StrLess(_, _)
StrLess(a, b) ==
    IF b = <<>> THEN FALSE
    ELSE IF a = <<>> THEN TRUE
    ELSE IF Head(a) # Head(b) THEN Head(a) < Head(b)
    ELSE StrLess(Tail(a), Tail(b))

\* Array.prototype.sort() without comparator on an array of strings: ascending
\* by code units (stable; equal strings are indistinguishable).
RECURSIVE InsertStr(_, _)
InsertStr(sorted, s) ==
    IF sorted = <<>> THEN <<s>>
    ELSE IF StrLess(s, Head(sorted)) THEN <<s>> \o sorted
    ELSE <<Head(sorted)>> \o InsertStr(Tail(sorted), s)

RECURSIVE SortStrings(_)
SortStrings(arr) ==
    IF arr = <<>> THEN <<>>
    ELSE InsertStr(SortStrings(SubSeq(arr, 1, Len(arr) - 1)), arr[Len(arr)])

\* Array.prototype.join(sep)
RECURSIVE Join(_, _)
Join(arr, sep) ==
    IF arr = <<>> THEN <<>>
    ELSE IF Len(arr) = 1 THEN arr[1]
    ELSE arr[1] \o sep \o Join(Tail(arr), sep)

-----------------------------------------------------------------------------
(* Dictionaries: sequences of entries in insertion order *)

Has(o, key) == \E i \in DOMAIN o : o[i].k = key
Get(o, key) == o[CHOOSE i \in DOMAIN o : o[i].k = key].v
Put(o, key, val) ==
    IF Has(o, key)
    THEN [i \in DOMAIN o |-> IF o[i].k = key THEN [k |-> key, v |-> val] ELSE o[i]]
    ELSE Append(o, [k |-> key, v |-> val])
Keys(o) == [i \in DOMAIN o |-> o[i].k]
KeySet(o) == {o[i].k : i \in DOMAIN o}

\* [...new Set(arr)]: the distinct elements in order of first occurrence
RECURSIVE Distinct(_)
Distinct(arr) ==
    IF arr = <<>> THEN <<>>
    ELSE LET init == Distinct(SubSeq(arr, 1, Len(arr) - 1))
             x == arr[Len(arr)]
         IN IF \E i \in DOMAIN init : init[i] = x THEN init ELSE Append(init, x)

-----------------------------------------------------------------------------
(* calculatePowerupStats and the fold of the first variant's renderCharts *)

NewStat == [used |-> 0, goals |-> 0]

\* stats[ent][item] = {used: 0, goals: 0} unless the cell exists
InitCell(stats, ent, item) ==
    IF Has(Get(stats, ent), item) THEN stats
    ELSE Put(stats, ent, Put(Get(stats, ent), item, NewStat))

IncUsed(stats, ent, item) ==
    LET c == Get(Get(stats, ent), item)
    IN Put(stats, ent, Put(Get(stats, ent), item, [c EXCEPT !.used = @ + 1]))

IncGoals(stats, ent, item) ==
    LET c == Get(Get(stats, ent), item)
    IN Put(stats, ent, Put(Get(stats, ent), item, [c EXCEPT !.goals = @ + 1]))

\* powerupStatsStep with the test for "None" left out of the Goal branch
powerupStatsStepCountsNone(acc, e) ==
    LET pName == e.player_name
        pItem == e.powerup_name
        ps == InitCell(acc.playerStats, pName, pItem)
    IN IF e.event_type = "Activation"
       THEN [totalUsage |-> Put(acc.totalUsage, pItem,
                                (IF Has(acc.totalUsage, pItem)
                                 THEN Get(acc.totalUsage, pItem) ELSE 0) + 1),
             playerStats |-> IncUsed(ps, pName, pItem)]
       ELSE IF e.event_type = "Goal"
       THEN [totalUsage |-> acc.totalUsage, playerStats |-> IncGoals(ps, pName, pItem)]
       ELSE [totalUsage |-> acc.totalUsage, playerStats |-> ps]

\* the body of events.forEach in calculatePowerupStats
powerupStatsStep(acc, e) ==
    LET pName == e.player_name
        pItem == e.powerup_name
        ps == InitCell(acc.playerStats, pName, pItem)
    IN IF e.event_type = "Activation"
       THEN [totalUsage |-> Put(acc.totalUsage, pItem,
                                (IF Has(acc.totalUsage, pItem)
                                 THEN Get(acc.totalUsage, pItem) ELSE 0) + 1),
             playerStats |-> IncUsed(ps, pName, pItem)]
       ELSE IF e.event_type = "Goal" /\ pItem # sNone
       THEN [totalUsage |-> acc.totalUsage, playerStats |-> IncGoals(ps, pName, pItem)]
       ELSE [totalUsage |-> acc.totalUsage, playerStats |-> ps]

RECURSIVE powerupStatsFold(_, _, _)
powerupStatsFold(acc, evs, n) ==
    IF n = 0 THEN acc
    ELSE powerupStatsStep(powerupStatsFold(acc, evs, n - 1), evs[n])

calculatePowerupStats(evs) ==
    LET allPlayers == Distinct([i \in DOMAIN evs |-> evs[i].player_name])
        seeded == [i \in DOMAIN allPlayers |-> [k |-> allPlayers[i], v |-> <<>>]]
    IN powerupStatsFold([totalUsage |-> <<>>, playerStats |-> seeded], evs, Len(evs))

\* first variant: renderCharts creates the player entry on the player's first event
renderChartsStepV1(acc, e) ==
    LET pName == e.player_name
        ps == IF Has(acc.playerStats, pName) THEN acc.playerStats
              ELSE Put(acc.playerStats, pName, <<>>)
    IN powerupStatsStep([totalUsage |-> acc.totalUsage, playerStats |-> ps], e)

RECURSIVE renderChartsFoldV1(_, _, _)
renderChartsFoldV1(acc, evs, n) ==
    IF n = 0 THEN acc
    ELSE renderChartsStepV1(renderChartsFoldV1(acc, evs, n - 1), evs[n])

renderChartsV1(evs) ==
    renderChartsFoldV1([totalUsage |-> <<>>, playerStats |-> <<>>], evs, Len(evs))

-----------------------------------------------------------------------------
(* Team identity and calculateTeamStatsByEvent *)

\* a roster that is null / undefined in the match record
NULL == << <<0>> >>

\* (players || []).sort(): the array that is sorted and then joined
sortedRoster(players) == IF players = NULL THEN <<>> ELSE SortStrings(players)

\* teamIdentity with the sort left out
teamIdentityUnsorted(players) ==
    LET joined == Join(IF players = NULL THEN <<>> ELSE players, sAmp)
    IN IF joined = <<>> THEN sUnknown ELSE joined

\* (players || []).sort().join(" & ") || "Unknown"
teamIdentity(players) ==
    LET joined == Join(sortedRoster(players), sAmp)
    IN IF joined = <<>> THEN sUnknown ELSE joined

\* what the in-place sort leaves in the match record
rosterAfterSort(players) == IF players = NULL THEN NULL ELSE SortStrings(players)

matchesAfterSort(ms) ==
    [i \in DOMAIN ms |->
        [ms[i] EXCEPT !.team0_players = rosterAfterSort(@),
                      !.team1_players = rosterAfterSort(@)]]

\* processTeam of renderDuoTable: [...players].sort().join(" & ") (players is
\* a non-empty array here; the copy is sorted, the roster is not)
duoTeamId(players) == Join(SortStrings(players), sAmp)

\* renderRivalries: (players || []).sort().join(" & ")
rivalryName(players) == Join(sortedRoster(players), sAmp)

\* gameToTeams[m.game_id] = { 0: team0, 1: team1 } for every match, in order
RECURSIVE buildGameToTeams(_, _)
buildGameToTeams(ms, n) ==
    IF n = 0 THEN <<>>
    ELSE Put(buildGameToTeams(ms, n - 1), ms[n].game_id,
             <<teamIdentity(ms[n].team0_players), teamIdentity(ms[n].team1_players)>>)

\* gameMap[e.team_num] for team_num 0 / 1
sideOf(gameMap, team_num) == gameMap[team_num + 1]

\* Object.values of a dictionary with integer keys: ascending key order
RECURSIVE InsertByKey(_, _)
InsertByKey(sorted, entry) ==
    IF sorted = <<>> THEN <<entry>>
    ELSE IF entry.k < Head(sorted).k THEN <<entry>> \o sorted
    ELSE <<Head(sorted)>> \o InsertByKey(Tail(sorted), entry)

RECURSIVE IntegerKeyOrder(_)
IntegerKeyOrder(o) ==
    IF o = <<>> THEN <<>>
    ELSE InsertByKey(IntegerKeyOrder(SubSeq(o, 1, Len(o) - 1)), o[Len(o)])

\* Object.values(gameToTeams).flatMap(g => Object.values(g))
RECURSIVE flatTeams(_)
flatTeams(entries) ==
    IF entries = <<>> THEN <<>>
    ELSE <<Head(entries).v[1], Head(entries).v[2]>> \o flatTeams(Tail(entries))

\* seedTeams without the test for "Unknown"
RECURSIVE seedTeamsWithUnknown(_)
seedTeamsWithUnknown(names) ==
    IF names = <<>> THEN <<>>
    ELSE Put(seedTeamsWithUnknown(SubSeq(names, 1, Len(names) - 1)), names[Len(names)], <<>>)

\* allTeams.forEach(teamName => { if (teamName !== "Unknown") teamStats[teamName] = {} })
RECURSIVE seedTeams(_)
seedTeams(names) ==
    IF names = <<>> THEN <<>>
    ELSE LET init == seedTeams(SubSeq(names, 1, Len(names) - 1))
             nm == names[Len(names)]
         IN IF nm # sUnknown THEN Put(init, nm, <<>>) ELSE init

\* teamStatsStep reading side 0 of the match whatever the event's team_num
teamStatsStepSideZero(gameToTeams, teamStats, e) ==
    IF ~Has(gameToTeams, e.game_id) THEN teamStats
    ELSE LET teamName == sideOf(Get(gameToTeams, e.game_id), 0)
             pItem == e.powerup_name
         IN IF teamName = sUnknown THEN teamStats
            ELSE LET ts == InitCell(teamStats, teamName, pItem)
                 IN IF e.event_type = "Activation" THEN IncUsed(ts, teamName, pItem)
                    ELSE IF e.event_type = "Goal" /\ pItem # sNone
                    THEN IncGoals(ts, teamName, pItem)
                    ELSE ts

\* the body of events.forEach in calculateTeamStatsByEvent
teamStatsStep(gameToTeams, teamStats, e) ==
    IF ~Has(gameToTeams, e.game_id) THEN teamStats
    ELSE LET teamName == sideOf(Get(gameToTeams, e.game_id), e.team_num)
             pItem == e.powerup_name
         IN IF teamName = sUnknown THEN teamStats
            ELSE LET ts == InitCell(teamStats, teamName, pItem)
                 IN IF e.event_type = "Activation" THEN IncUsed(ts, teamName, pItem)
                    ELSE IF e.event_type = "Goal" /\ pItem # sNone
                    THEN IncGoals(ts, teamName, pItem)
                    ELSE ts

RECURSIVE teamStatsFold(_, _, _, _)
teamStatsFold(gameToTeams, teamStats, evs, n) ==
    IF n = 0 THEN teamStats
    ELSE teamStatsStep(gameToTeams, teamStatsFold(gameToTeams, teamStats, evs, n - 1), evs[n])

calculateTeamStatsByEvent(evs, ms) ==
    LET gameToTeams == buildGameToTeams(ms, Len(ms))
        allTeams == Distinct(flatTeams(IntegerKeyOrder(gameToTeams)))
    IN teamStatsFold(gameToTeams, seedTeams(allTeams), evs, Len(evs))

\* first variant: renderTeamAnalytics creates the team entry on its first
\* event and has no test for "Unknown"
teamAnalyticsStepV1(gameToTeams, teamStats, e) ==
    IF ~Has(gameToTeams, e.game_id) THEN teamStats
    ELSE LET teamName == sideOf(Get(gameToTeams, e.game_id), e.team_num)
             pItem == e.powerup_name
             t0 == IF Has(teamStats, teamName) THEN teamStats
                   ELSE Put(teamStats, teamName, <<>>)
             ts == InitCell(t0, teamName, pItem)
         IN IF e.event_type = "Activation" THEN IncUsed(ts, teamName, pItem)
            ELSE IF e.event_type = "Goal" /\ pItem # sNone
            THEN IncGoals(ts, teamName, pItem)
            ELSE ts

RECURSIVE teamAnalyticsFoldV1(_, _, _, _)
teamAnalyticsFoldV1(gameToTeams, teamStats, evs, n) ==
    IF n = 0 THEN teamStats
    ELSE teamAnalyticsStepV1(gameToTeams,
                             teamAnalyticsFoldV1(gameToTeams, teamStats, evs, n - 1), evs[n])

renderTeamAnalyticsV1(evs, ms) ==
    teamAnalyticsFoldV1(buildGameToTeams(ms, Len(ms)), <<>>, evs, Len(evs))

-----------------------------------------------------------------------------
(* Fairness charts *)

\* Object.keys(POWERUP_COLORS)
POWERUP_COLORS ==
    <<sKaktus, sNogica, sMagnet, sSaka, sVentilator, sPlunger, sBetman,
      sTeleport, sFreeze, sSakica, sBoost>>

\* Object.values(items).reduce((a, b) => a + b.used, 0)
RECURSIVE totalUsed(_)
totalUsed(items) ==
    IF items = <<>> THEN 0 ELSE Head(items).v.used + totalUsed(Tail(items))

\* (count / totalItems) * 100, or 0: kept as the fraction num / den
fairnessPct(items, pName) ==
    LET totalItems == totalUsed(items)
        count == IF Has(items, pName) THEN Get(items, pName).used ELSE 0
    IN IF totalItems > 0 THEN [num |-> count * 100, den |-> totalItems]
       ELSE [num |-> 0, den |-> 1]

\* the labels and datasets handed to the chart
renderFairnessChart(stats) ==
    LET players == SortStrings(Keys(stats))
    IN [labels |-> players,
        datasets |-> [p \in DOMAIN POWERUP_COLORS |->
            [label |-> POWERUP_COLORS[p],
             data |-> [i \in DOMAIN players |->
                          fairnessPct(Get(stats, players[i]), POWERUP_COLORS[p])]]]]

renderTeamFairnessChart(stats) == renderFairnessChart(stats)

-----------------------------------------------------------------------------
(* Rankings: the power-up leaderboard and the top scorers *)

\* Array.prototype.sort((a, b) => b.key - a.key): stable, descending
RECURSIVE InsertDesc(_, _)
InsertDesc(sorted, x) ==
    IF sorted = <<>> THEN <<x>>
    ELSE IF x.key > Head(sorted).key THEN <<x>> \o sorted
    ELSE <<Head(sorted)>> \o InsertDesc(Tail(sorted), x)

RECURSIVE SortDesc(_)
SortDesc(arr) ==
    IF arr = <<>> THEN <<>>
    ELSE InsertDesc(SortDesc(SubSeq(arr, 1, Len(arr) - 1)), arr[Len(arr)])

\* renderPowerupLeaderboard: Object.entries(totals) by count, highest first
renderPowerupLeaderboard(totals) ==
    SortDesc([i \in DOMAIN totals |-> [key |-> totals[i].v, name |-> totals[i].k]])

\* topScorersFold that counts a goal without power-up as a rumble goal
RECURSIVE topScorersFoldAllRumble(_, _, _)
topScorersFoldAllRumble(playerStats, evs, n) ==
    IF n = 0 THEN playerStats
    ELSE LET prev == topScorersFoldAllRumble(playerStats, evs, n - 1)
             e == evs[n]
             cur == Get(prev, e.player_name)
         IN IF e.event_type = "Goal"
            THEN Put(prev, e.player_name,
                     [total |-> cur.total + 1, rumble |-> cur.rumble + 1])
            ELSE prev

\* renderTopScorers: the fold over the events, then the ranking by total
RECURSIVE topScorersFold(_, _, _)
topScorersFold(playerStats, evs, n) ==
    IF n = 0 THEN playerStats
    ELSE LET prev == topScorersFold(playerStats, evs, n - 1)
             e == evs[n]
             cur == Get(prev, e.player_name)
         IN IF e.event_type = "Goal"
            THEN Put(prev, e.player_name,
                     [total |-> cur.total + 1,
                      rumble |-> cur.rumble + (IF e.powerup_name # sNone THEN 1 ELSE 0)])
            ELSE prev

renderTopScorers(evs) ==
    LET names == Distinct([i \in DOMAIN evs |-> evs[i].player_name])
        seeded == [i \in DOMAIN names |-> [k |-> names[i], v |-> [total |-> 0, rumble |-> 0]]]
        playerStats == topScorersFold(seeded, evs, Len(evs))
    IN SortDesc([i \in DOMAIN playerStats |->
                    [key |-> playerStats[i].v.total, name |-> playerStats[i].k,
                     total |-> playerStats[i].v.total, rumble |-> playerStats[i].v.rumble]])

-----------------------------------------------------------------------------
(* Inputs and the parts of the state a specification does not use *)

MaxEvents == 3

\* the sequences over S of length at most n
BSeq(S, n) == UNION {[1..m -> S] : m \in 0..n}

Players == {nmA, nmB}
EventPowerups == {sKaktus, sNone, sSpikes}
EventTypes == {"Activation", "Goal"}

\* events as calculatePowerupStats reads them: player, power-up, type
PlayerEvents ==
    [game_id : {1}, team_num : {0}, player_name : Players,
     powerup_name : EventPowerups, event_type : EventTypes]

NoCall == [fn |-> "none", val |-> <<>>]

\* a specification without a remote data source
NoData == [events |-> <<>>, matches |-> <<>>]

\* no handleSort since the cards were built
NoClick == [cardId |-> <<>>, column |-> "none"]

\* the page before initDashboard has run
PageIdle ==
    /\ pc = "idle"
    /\ eventsReq = "none"
    /\ matchesReq = "none"
    /\ alerts = 0
    /\ loads = 0
    /\ GLOBAL_PLAYER_STATS = <<>>
    /\ GLOBAL_TEAM_STATS = <<>>
    /\ CARD_SORT_STATE = <<>>
    /\ dom = <<>>
    /\ lastClick = NoClick
    /\ db = NoData
    /\ page = <<>>
    /\ steps = <<>>

pageVars == <<pc, eventsReq, matchesReq, alerts, loads, GLOBAL_PLAYER_STATS,
              GLOBAL_TEAM_STATS, CARD_SORT_STATE, dom, lastClick, db, page, steps>>

-----------------------------------------------------------------------------
(* SpecEvents: the player-level aggregation applied to every bounded event list *)

InitEvents ==
    /\ events \in BSeq(PlayerEvents, MaxEvents)
    /\ matches = <<>>
    /\ ret = NoCall
    /\ PageIdle

CallCalculatePowerupStats ==
    /\ ret = NoCall
    /\ ret' = [fn |-> "calculatePowerupStats", val |-> calculatePowerupStats(events)]
    /\ UNCHANGED <<events, matches, pageVars>>

CallRenderChartsV1 ==
    /\ ret = NoCall
    /\ ret' = [fn |-> "renderChartsV1", val |-> renderChartsV1(events)]
    /\ UNCHANGED <<events, matches, pageVars>>

\* renderFairnessChart('chart-fairness', playerStats) as renderCharts calls it
CallRenderFairnessChart ==
    /\ ret = NoCall
    /\ ret' = [fn |-> "renderFairnessChart",
               val |-> renderFairnessChart(calculatePowerupStats(events).playerStats)]
    /\ UNCHANGED <<events, matches, pageVars>>

CallRenderTopScorers ==
    /\ ret = NoCall
    /\ ret' = [fn |-> "renderTopScorers", val |-> renderTopScorers(events)]
    /\ UNCHANGED <<events, matches, pageVars>>

NextEvents ==
    \/ CallCalculatePowerupStats
    \/ CallRenderChartsV1
    \/ CallRenderFairnessChart
    \/ CallRenderTopScorers

SpecEvents == InitEvents /\ [][NextEvents]_vars

-----------------------------------------------------------------------------
(* Claims on the player-level aggregation *)

\* number of events of player P with power-up X and type T
CountEvents(evs, P, X, T) ==
    Cardinality({i \in DOMAIN evs : /\ evs[i].player_name = P
                                    /\ evs[i].powerup_name = X
                                    /\ evs[i].event_type = T})

\* the cell of entity P and power-up X; an absent cell counts nothing
CellOf(stats, P, X) ==
    IF Has(stats, P) /\ Has(Get(stats, P), X) THEN Get(Get(stats, P), X) ELSE NewStat

\* no key occurs twice in a dictionary
UniqueKeys(o) == \A i, j \in DOMAIN o : o[i].k = o[j].k => i = j

\* C1: the player statistics of calculatePowerupStats (and of the first
\* variant's renderCharts) hold, for every player P and power-up X, used =
\* number of Activation events of (P, X) and goals = number of Goal events of
\* (P, X) with X other than "None"; no other player or power-up has a cell.
C1_UsedGoalsConservation ==
    ret.fn \in {"calculatePowerupStats", "renderChartsV1"} =>
        LET stats == ret.val.playerStats
        IN /\ UniqueKeys(stats)
           /\ KeySet(stats) = {events[i].player_name : i \in DOMAIN events}
           /\ \A P \in KeySet(stats) :
                /\ UniqueKeys(Get(stats, P))
                /\ KeySet(Get(stats, P)) =
                       {events[i].powerup_name :
                           i \in {j \in DOMAIN events : events[j].player_name = P}}
           /\ \A P \in Players, X \in EventPowerups :
                /\ CellOf(stats, P, X).used = CountEvents(events, P, X, "Activation")
                /\ CellOf(stats, P, X).goals =
                       (IF X = sNone THEN 0 ELSE CountEvents(events, P, X, "Goal"))

\* C1 witness: one player's cell counted two activations while the other
\* player scored a power-up goal and a "None" goal was left out
C1_Witness ==
    /\ ret.fn = "calculatePowerupStats"
    /\ CellOf(ret.val.playerStats, nmA, sKaktus).used = 2
    /\ CellOf(ret.val.playerStats, nmB, sKaktus).goals = 1
    /\ CellOf(ret.val.playerStats, nmA, sKaktus).goals = 0

\* sum of the numerators of entity i's percentages over the catalogue
RECURSIVE pctNumSum(_, _, _)
pctNumSum(datasets, i, n) ==
    IF n = 0 THEN 0 ELSE datasets[n].data[i].num + pctNumSum(datasets, i, n - 1)

\* C10: for every entity of the fairness chart, the percentages over the
\* catalogue add up to 100 when the entity's total usage is positive, and are
\* all 0 when it is 0.
C10_FairnessSumsTo100 ==
    ret.fn = "renderFairnessChart" =>
        \A i \in DOMAIN ret.val.labels :
            LET ds == ret.val.datasets
                P == ret.val.labels[i]
                usage == Cardinality({j \in DOMAIN events :
                                         /\ events[j].player_name = P
                                         /\ events[j].event_type = "Activation"})
            IN IF usage > 0
               THEN /\ \A p \in DOMAIN ds : ds[p].data[i].den = usage
                    /\ pctNumSum(ds, i, Len(ds)) = 100 * usage
               ELSE \A p \in DOMAIN ds : ds[p].data[i].num = 0

-----------------------------------------------------------------------------
(* SpecTeams: the team-level aggregation applied to every bounded pair of an
   event list and a match list.  game_id is the key of a match, so the
   matches of a list carry distinct ids: the i-th match has game_id i. *)

MaxTeamEvents == 2
MaxMatches == 1

\* events as calculateTeamStatsByEvent reads them: game, side, power-up, type
TeamEvents ==
    {e \in [game_id : {1, 2}, team_num : {0, 1}, player_name : {nmA},
            powerup_name : {sKaktus, sNone}, event_type : EventTypes] :
        e.powerup_name = sNone => e.event_type = "Goal"}

Side0Rosters == {NULL, <<>>, <<nmB, nmA>>}
Side1Rosters == {<<>>, <<nmA, nmB>>}

MatchLists ==
    UNION {{[i \in 1..n |-> [game_id |-> i, team0_players |-> r0[i],
                             team1_players |-> r1[i], winning_team |-> 0]] :
               r0 \in [1..n -> Side0Rosters], r1 \in [1..n -> Side1Rosters]} :
           n \in 0..MaxMatches}

InitTeams ==
    /\ events \in BSeq(TeamEvents, MaxTeamEvents)
    /\ matches \in MatchLists
    /\ ret = NoCall
    /\ PageIdle

CallCalculateTeamStatsByEvent ==
    /\ ret = NoCall
    /\ ret' = [fn |-> "calculateTeamStatsByEvent",
               val |-> [teamStats |-> calculateTeamStatsByEvent(events, matches)]]
    /\ matches' = matchesAfterSort(matches)
    /\ UNCHANGED <<events, pageVars>>

\* renderCharts of the second variant: both aggregations over the same events
CallRenderCharts ==
    /\ ret = NoCall
    /\ ret' = [fn |-> "renderCharts",
               val |-> [playerStats |-> calculatePowerupStats(events).playerStats,
                        totalUsage |-> calculatePowerupStats(events).totalUsage,
                        teamStats |-> calculateTeamStatsByEvent(events, matches)]]
    /\ matches' = matchesAfterSort(matches)
    /\ UNCHANGED <<events, pageVars>>

CallRenderTeamAnalyticsV1 ==
    /\ ret = NoCall
    /\ ret' = [fn |-> "renderTeamAnalyticsV1",
               val |-> [teamStats |-> renderTeamAnalyticsV1(events, matches)]]
    /\ matches' = matchesAfterSort(matches)
    /\ UNCHANGED <<events, pageVars>>

NextTeams ==
    \/ CallCalculateTeamStatsByEvent
    \/ CallRenderCharts
    \/ CallRenderTeamAnalyticsV1

SpecTeams == InitTeams /\ [][NextTeams]_vars

-----------------------------------------------------------------------------
(* Claims on the team-level aggregation *)

\* s is in ascending order of code units
Ascending(s) == \A i \in 1..(Len(s) - 1) : s[i] = s[i + 1] \/ StrLess(s[i], s[i + 1])

\* s and t hold the same names the same number of times
SameNames(s, t) ==
    /\ Len(s) = Len(t)
    /\ \A x \in {s[i] : i \in DOMAIN s} \cup {t[i] : i \in DOMAIN t} :
          Cardinality({i \in DOMAIN s : s[i] = x}) = Cardinality({i \in DOMAIN t : t[i] = x})

\* the arrangements of the names of a roster
Arrangements(r) == {s \in [1..Len(r) -> {r[i] : i \in DOMAIN r}] : SameNames(s, r)}

\* the identity the specification gives a roster: "Unknown" for an empty or
\* absent one, else its names in ascending order joined with " & "
IdentityOf(r) ==
    IF r = NULL \/ r = <<>> THEN sUnknown
    ELSE Join(CHOOSE s \in Arrangements(r) : Ascending(s), sAmp)

\* the roster of side team_num of match m
RosterOf(m, team_num) == IF team_num = 0 THEN m.team0_players ELSE m.team1_players

\* the events that the join by (game_id, team_num) gives team T
EventsOfTeam(T, X, type) ==
    {i \in DOMAIN events :
        /\ events[i].powerup_name = X
        /\ events[i].event_type = type
        /\ \E j \in DOMAIN matches :
              /\ matches[j].game_id = events[i].game_id
              /\ IdentityOf(RosterOf(matches[j], events[i].team_num)) = T}

TeamIdentities ==
    {IdentityOf(RosterOf(matches[j], n)) : j \in DOMAIN matches, n \in {0, 1}} \ {sUnknown}

Orphans == {i \in DOMAIN events : \A j \in DOMAIN matches : matches[j].game_id # events[i].game_id}

\* C2: calculateTeamStatsByEvent joins each event to a team by (game_id,
\* team_num): every team cell counts exactly the Activation / non-"None" Goal
\* events joined to that team; an event of no match reaches no team cell and
\* is still counted in the player statistics computed from the same events.
C2_TeamJoin ==
    ret.fn \in {"calculateTeamStatsByEvent", "renderCharts"} =>
        LET stats == ret.val.teamStats
        IN /\ KeySet(stats) \subseteq TeamIdentities
           /\ \A T \in TeamIdentities, X \in {sKaktus, sNone} :
                /\ CellOf(stats, T, X).used = Cardinality(EventsOfTeam(T, X, "Activation"))
                /\ CellOf(stats, T, X).goals =
                      (IF X = sNone THEN 0 ELSE Cardinality(EventsOfTeam(T, X, "Goal")))
           /\ ret.fn = "renderCharts" =>
                 \A P \in {nmA}, X \in {sKaktus, sNone} :
                    /\ CellOf(ret.val.playerStats, P, X).used =
                          CountEvents(events, P, X, "Activation")
                    /\ CellOf(ret.val.playerStats, P, X).goals =
                          (IF X = sNone THEN 0 ELSE CountEvents(events, P, X, "Goal"))

\* C2 witness: an orphan activation is in the player cell but in no team
\* cell, next to an activation that was joined to team "A & B"
C2_Witness ==
    /\ ret.fn = "renderCharts"
    /\ \E i \in Orphans : events[i].event_type = "Activation"
    /\ CellOf(ret.val.teamStats, Join(<<nmA, nmB>>, sAmp), sKaktus).used = 1
    /\ CellOf(ret.val.playerStats, nmA, sKaktus).used = 2

\* C25: the keys of the team statistics returned by calculateTeamStatsByEvent
\* are exactly the identities other than "Unknown" resolved from the rosters
\* of the matches: a team no event is joined to is present with an empty
\* power-up map, and no event adds a key.
C25_TeamPreSeeding ==
    ret.fn = "calculateTeamStatsByEvent" =>
        LET stats == ret.val.teamStats
        IN /\ UniqueKeys(stats)
           /\ KeySet(stats) = TeamIdentities
           /\ \A T \in TeamIdentities :
                 (\A X \in {sKaktus, sNone}, type \in EventTypes : EventsOfTeam(T, X, type) = {})
                    => Get(stats, T) = <<>>

\* C25 witness: the team "A & B" of side 1 has no event and is present with
\* an empty map, while the events of the call are one of the absent side 0 of
\* that match and one of a game without a match
C25_Witness ==
    /\ ret.fn = "calculateTeamStatsByEvent"
    /\ Len(matches) = 1
    /\ matches[1].team0_players = NULL
    /\ Len(events) = 2
    /\ events[1].game_id = 1 /\ events[1].team_num = 0
    /\ events[2].game_id = 2
    /\ ret.val.teamStats = <<[k |-> Join(<<nmA, nmB>>, sAmp), v |-> <<>>]>>

\* C3: an empty or absent roster resolves to "Unknown", and the team
\* statistics of every team aggregation never have the key "Unknown".
C3_UnknownExcluded ==
    ret.fn \in {"calculateTeamStatsByEvent", "renderCharts", "renderTeamAnalyticsV1"} =>
        ~Has(ret.val.teamStats, sUnknown)

-----------------------------------------------------------------------------
(* SpecRoster: the three places that resolve a roster, applied to every
   bounded roster.  The roster is side 0 of the only match. *)

MaxRoster == 3

nmAB == <<65, 66>>                                  \* "AB"
nmLowerA == <<97>>                                  \* "a"
RosterNames == {nmA, nmB, nmAB, nmLowerA}
Rosters == BSeq(RosterNames, MaxRoster) \cup {NULL}

InitRoster ==
    /\ events = <<>>
    /\ matches \in {<<[game_id |-> 1, team0_players |-> r, team1_players |-> <<>>,
                      winning_team |-> 0]>> : r \in Rosters}
    /\ ret = NoCall
    /\ PageIdle

\* calculateTeamStatsByEvent, lines 691-692
ResolveInTeamStats ==
    /\ ret = NoCall
    /\ ret' = [fn |-> "teamIdentity", val |-> teamIdentity(matches[1].team0_players)]
    /\ matches' = matchesAfterSort(matches)
    /\ UNCHANGED <<events, pageVars>>

\* renderDuoTable, processTeam: returns before resolving an empty or absent roster
ResolveInDuoTable ==
    /\ ret = NoCall
    /\ matches[1].team0_players # NULL
    /\ Len(matches[1].team0_players) # 0
    /\ ret' = [fn |-> "duoTeamId", val |-> duoTeamId(matches[1].team0_players)]
    /\ UNCHANGED <<events, matches, pageVars>>

\* renderRivalries, lines 921-922
ResolveInRivalries ==
    /\ ret = NoCall
    /\ ret' = [fn |-> "rivalryName", val |-> rivalryName(matches[1].team0_players)]
    /\ matches' = matchesAfterSort(matches)
    /\ UNCHANGED <<events, pageVars>>

NextRoster ==
    \/ ResolveInTeamStats
    \/ ResolveInDuoTable
    \/ ResolveInRivalries

SpecRoster == InitRoster /\ [][NextRoster]_vars

\* C4: wherever a non-empty roster is resolved (team stats, duo records,
\* rivalries) the identity is the roster's names in ascending order joined
\* with " & ", so it is the same string for every order of the same names.
C4_RosterOrderInvariance ==
    LET r == matches[1].team0_players
    IN (ret.fn \in {"teamIdentity", "duoTeamId", "rivalryName"} /\ r # NULL /\ r # <<>>) =>
          \A s \in Arrangements(r) : Ascending(s) => ret.val = Join(s, sAmp)

\* C4 witness: the duo table resolved the roster ["B", "A"], still in that
\* order in the match, to "A & B"
C4_Witness ==
    /\ ret.fn = "duoTeamId"
    /\ matches[1].team0_players = <<nmB, nmA>>
    /\ ret.val = <<65, 32, 38, 32, 66>>

\* C21: resolving the rosters of a match, inside team stats, the duo table or
\* rivalries, leaves the match record as it was: team0_players and
\* team1_players hold the same names in the same order after the call.
C21_ResolutionLeavesRosters ==
    [][ret' # ret =>
          \A i \in DOMAIN matches :
              /\ matches'[i].team0_players = matches[i].team0_players
              /\ matches'[i].team1_players = matches[i].team1_players]_vars

-----------------------------------------------------------------------------
(* Cards, sort state and table bodies *)

IsAlnum(c) == c \in 48..57 \/ c \in 65..90 \/ c \in 97..122

\* name.replace(/[^a-zA-Z0-9]/g, '')
safeName(name) == SelectSeq(name, IsAlnum)

\* `player-${safeName}` / `team-${safeName}`
cardIdOf(type, name) ==
    (IF type = "player" THEN sPlayerDash ELSE sTeamDash) \o safeName(name)

\* String.prototype.includes
Includes(hay, needle) ==
    \E i \in 0..(Len(hay) - Len(needle)) : SubSeq(hay, i + 1, i + Len(needle)) = needle

\* String.prototype.localeCompare on words of ASCII letters: alphabetical
\* whatever the case, and on a tie the lower-case letter first.
\* The result is negative, zero or positive.
ToUpper(c) == IF c \in 97..122 THEN c - 32 ELSE c

RECURSIVE caseCompare(_, _)
caseCompare(a, b) ==
    IF a = <<>> \/ b = <<>> THEN 0
    ELSE IF Head(a) = Head(b) THEN caseCompare(Tail(a), Tail(b))
    ELSE IF Head(a) > Head(b) THEN -1 ELSE 1

localeCompare(a, b) ==
    LET ua == [i \in DOMAIN a |-> ToUpper(a[i])]
        ub == [i \in DOMAIN b |-> ToUpper(b[i])]
    IN IF ua = ub THEN caseCompare(a, b)
       ELSE IF StrLess(ua, ub) THEN -1 ELSE 1

\* convOf without the test of data.used: the division is by zero when used = 0
convOfNoGuard(data) == [num |-> data.goals * 100, den |-> data.used]

\* data.used > 0 ? (data.goals / data.used) * 100 : 0, kept as num / den
convOf(data) ==
    IF data.used > 0 THEN [num |-> data.goals * 100, den |-> data.used]
    ELSE [num |-> 0, den |-> 1]

\* the sign of valA - valB for the numeric columns
numCompare(a, b, column) ==
    LET d == IF column = "used" THEN a.used - b.used
             ELSE IF column = "goals" THEN a.goals - b.goals
             ELSE a.conv.num * b.conv.den - b.conv.num * a.conv.den
    IN IF d < 0 THEN -1 ELSE IF d > 0 THEN 1 ELSE 0

\* rowCompare that ignores the direction
rowCompareAscOnly(a, b, column, direction) ==
    IF column = "name" THEN localeCompare(a.name, b.name) ELSE numCompare(a, b, column)

\* the comparator handed to rows.sort in renderTableBody
rowCompare(a, b, column, direction) ==
    IF column = "name"
    THEN (IF direction = "asc" THEN localeCompare(a.name, b.name)
          ELSE localeCompare(b.name, a.name))
    ELSE (IF direction = "asc" THEN numCompare(a, b, column)
          ELSE numCompare(b, a, column))

\* Array.prototype.sort(comparator): stable
RECURSIVE InsertRow(_, _, _, _)
InsertRow(sorted, r, column, direction) ==
    IF sorted = <<>> THEN <<r>>
    ELSE IF rowCompare(Head(sorted), r, column, direction) > 0 THEN <<r>> \o sorted
    ELSE <<Head(sorted)>> \o InsertRow(Tail(sorted), r, column, direction)

RECURSIVE SortRows(_, _, _)
SortRows(rows, column, direction) ==
    IF rows = <<>> THEN <<>>
    ELSE InsertRow(SortRows(SubSeq(rows, 1, Len(rows) - 1), column, direction),
                   rows[Len(rows)], column, direction)

\* Object.entries(stats).map(([name, data]) => ({ name, ...data, conv }))
rowsOf(items) ==
    [i \in DOMAIN items |->
        [name |-> items[i].k, used |-> items[i].v.used, goals |-> items[i].v.goals,
         conv |-> convOf(items[i].v)]]

DefaultSort == [column |-> "used", direction |-> "desc"]

\* renderTableBody(cardId, entityName, type): the new document.  The card's
\* element keeps what it was built for; its tbody gets the entity's rows.
renderTableBody(doc, sortState, allStats, cardId, entityName) ==
    IF ~Has(doc, cardId) \/ ~Has(allStats, entityName) THEN doc
    ELSE LET st == Get(sortState, cardId)
             card == Get(doc, cardId)
         IN Put(doc, cardId,
                [card EXCEPT !.shown = entityName,
                             !.rows = SortRows(rowsOf(Get(allStats, entityName)),
                                               st.column, st.direction)])

\* buildCards that keeps the sort state a card already has
RECURSIVE buildCardsKeepSort(_, _, _, _, _, _)
buildCardsKeepSort(type, stats, names, n, sortState, doc) ==
    IF n = 0 THEN [sort |-> sortState, doc |-> doc]
    ELSE LET prev == buildCardsKeepSort(type, stats, names, n - 1, sortState, doc)
             cardId == cardIdOf(type, names[n])
             st == IF Has(prev.sort, cardId) THEN prev.sort
                   ELSE Put(prev.sort, cardId, DefaultSort)
             d0 == IF Has(prev.doc, cardId) THEN prev.doc
                   ELSE Put(prev.doc, cardId,
                            [type |-> type, entity |-> names[n], shown |-> <<>>,
                             rows |-> <<>>])
         IN [sort |-> st, doc |-> renderTableBody(d0, st, stats, cardId, names[n])]

\* the body of Object.keys(stats).sort().forEach in renderPlayerCards /
\* renderTeamCards, for the names[1..n]
RECURSIVE buildCards(_, _, _, _, _, _)
buildCards(type, stats, names, n, sortState, doc) ==
    IF n = 0 THEN [sort |-> sortState, doc |-> doc]
    ELSE LET prev == buildCards(type, stats, names, n - 1, sortState, doc)
             cardId == cardIdOf(type, names[n])
             st == Put(prev.sort, cardId, DefaultSort)
             \* insertAdjacentHTML: a second element with an id already in the
             \* document is not the one getElementById finds
             d0 == IF Has(prev.doc, cardId) THEN prev.doc
                   ELSE Put(prev.doc, cardId,
                            [type |-> type, entity |-> names[n], shown |-> <<>>,
                             rows |-> <<>>])
         IN [sort |-> st, doc |-> renderTableBody(d0, st, stats, cardId, names[n])]

\* container.innerHTML = "": the cards of that grid leave the document
clearGrid(doc, type) == SelectSeq(doc, LAMBDA en : en.v.type # type)

\* renderPlayerCards(stats) / renderTeamCards(stats): new sort state and document
renderCards(type, stats, sortState, doc) ==
    LET names == SortStrings(Keys(stats))
    IN buildCards(type, stats, names, Len(names), sortState, clearGrid(doc, type))

\* toggled that always picks the descending direction for a new column
toggledAlwaysDesc(currentState, column) ==
    IF currentState.column = column
    THEN [currentState EXCEPT !.direction = IF @ = "asc" THEN "desc" ELSE "asc"]
    ELSE [column |-> column, direction |-> "desc"]

\* the sort state handleSort leaves for the card
toggled(currentState, column) ==
    IF currentState.column = column
    THEN [currentState EXCEPT !.direction = IF @ = "asc" THEN "desc" ELSE "asc"]
    ELSE [column |-> column, direction |-> IF column = "name" THEN "asc" ELSE "desc"]

\* Object.keys(stats).find(name => cardId.includes(safeName(name))): the index
\* of the entity found, 0 when there is none
findEntity(stats, cardId) ==
    LET hits == {i \in DOMAIN stats : Includes(cardId, safeName(stats[i].k))}
    IN IF hits = {} THEN 0 ELSE CHOOSE i \in hits : \A j \in hits : i <= j

Columns == {"name", "used", "goals", "conv"}

\* HandleSort that sets the new sort state on every card
HandleSortAll(cardId, column) ==
    /\ Has(dom, cardId)
    /\ LET type == Get(dom, cardId).type
           stats == IF type = "player" THEN GLOBAL_PLAYER_STATS ELSE GLOBAL_TEAM_STATS
           new == toggled(Get(CARD_SORT_STATE, cardId), column)
           st == [i \in DOMAIN CARD_SORT_STATE |-> [k |-> CARD_SORT_STATE[i].k, v |-> new]]
           found == findEntity(stats, cardId)
       IN /\ CARD_SORT_STATE' = st
          /\ dom' = IF found = 0 THEN dom
                    ELSE renderTableBody(dom, st, stats, cardId, stats[found].k)
    /\ lastClick' = [cardId |-> cardId, column |-> column]
    /\ UNCHANGED <<events, matches, ret, pc, eventsReq, matchesReq, alerts, loads,
                   GLOBAL_PLAYER_STATS, GLOBAL_TEAM_STATS, db, page, steps>>

\* handleSort(cardId, column, type), as wired to the headers of the card
\* cardId that is in the document
HandleSort(cardId, column) ==
    /\ Has(dom, cardId)
    /\ LET type == Get(dom, cardId).type
           stats == IF type = "player" THEN GLOBAL_PLAYER_STATS ELSE GLOBAL_TEAM_STATS
           st == Put(CARD_SORT_STATE, cardId, toggled(Get(CARD_SORT_STATE, cardId), column))
           found == findEntity(stats, cardId)
       IN /\ CARD_SORT_STATE' = st
          /\ dom' = IF found = 0 THEN dom
                    ELSE renderTableBody(dom, st, stats, cardId, stats[found].k)
    /\ lastClick' = [cardId |-> cardId, column |-> column]
    /\ UNCHANGED <<events, matches, ret, pc, eventsReq, matchesReq, alerts, loads,
                   GLOBAL_PLAYER_STATS, GLOBAL_TEAM_STATS, db, page, steps>>

-----------------------------------------------------------------------------
(* SpecTable: one player card over every bounded stat map; the state after
   renderPlayerCards(stats), then any sequence of handleSort calls *)

MaxRows == 2

sLowerBoost == <<98,111,111,115,116>>               \* "boost"
TableNames == {sBoost, sKaktus, sLowerBoost}
Counts == {0, 5, 10}
Cells == [used : Counts, goals : Counts]

\* the stat maps of at most MaxRows power-ups of TableNames, in any insertion order
ItemMaps ==
    UNION {{[i \in 1..n |-> [k |-> ns[i], v |-> cs[i]]] :
               ns \in {f \in [1..n -> TableNames] : \A i, j \in 1..n : f[i] = f[j] => i = j},
               cs \in [1..n -> Cells]} :
           n \in 0..MaxRows}

InitTable ==
    /\ events = <<>>
    /\ matches = <<>>
    /\ ret = NoCall
    /\ pc = "idle"
    /\ eventsReq = "none"
    /\ matchesReq = "none"
    /\ alerts = 0
    /\ loads = 0
    /\ GLOBAL_TEAM_STATS = <<>>
    /\ lastClick = NoClick
    /\ db = NoData
    /\ page = <<>>
    /\ steps = <<>>
    /\ \E items \in ItemMaps :
          LET stats == <<[k |-> nmA, v |-> items]>>
              built == renderCards("player", stats, <<>>, <<>>)
          IN /\ GLOBAL_PLAYER_STATS = stats
             /\ CARD_SORT_STATE = built.sort
             /\ dom = built.doc

SortClick == \E cardId \in KeySet(dom), column \in Columns : HandleSort(cardId, column)

NextTable == SortClick

SpecTable == InitTable /\ [][NextTable]_vars

\* a's key in the sort column is at most b's: alphabetical for "name",
\* numeric otherwise (conv = 100 * goals / used, 0 when used = 0)
ConvLeq(a, b) ==
    LET ga == IF a.used > 0 THEN a.goals ELSE 0
        ua == IF a.used > 0 THEN a.used ELSE 1
        gb == IF b.used > 0 THEN b.goals ELSE 0
        ub == IF b.used > 0 THEN b.used ELSE 1
    IN ga * ub <= gb * ua

KeyLeq(a, b, column) ==
    IF column = "name" THEN localeCompare(a.name, b.name) <= 0
    ELSE IF column = "used" THEN a.used <= b.used
    ELSE IF column = "goals" THEN a.goals <= b.goals
    ELSE ConvLeq(a, b)

\* C6: the table body of a card holds exactly one row {name, used, goals,
\* conv} per power-up of the shown entity's stat map, in non-decreasing order
\* of the sort column when the direction is asc and non-increasing when desc.
C6_RowsSorted ==
    \A c \in DOMAIN dom :
        LET card == dom[c].v
            st == Get(CARD_SORT_STATE, dom[c].k)
            items == Get(GLOBAL_PLAYER_STATS, card.shown)
            rows == card.rows
        IN /\ Len(rows) = Len(items)
           /\ \A i \in DOMAIN items :
                 \E r \in DOMAIN rows :
                    /\ rows[r].name = items[i].k
                    /\ rows[r].used = items[i].v.used
                    /\ rows[r].goals = items[i].v.goals
                    /\ rows[r].conv.num * (IF items[i].v.used > 0 THEN items[i].v.used ELSE 1)
                          = (IF items[i].v.used > 0 THEN 100 * items[i].v.goals ELSE 0)
                               * rows[r].conv.den
                    /\ \A r2 \in DOMAIN rows : rows[r2].name = items[i].k => r2 = r
           /\ \A r \in 1..(Len(rows) - 1) :
                 IF st.direction = "asc" THEN KeyLeq(rows[r], rows[r + 1], st.column)
                 ELSE KeyLeq(rows[r + 1], rows[r], st.column)

\* C6 witness: the rows Boost (used 5) and Kaktus (used 10), inserted in that
\* order, are shown as Kaktus, Boost under {used, asc -> desc} reached by two
\* clicks on "used"
C6_Witness ==
    /\ lastClick.column = "used"
    /\ Has(dom, cardIdOf("player", nmA))
    /\ Get(CARD_SORT_STATE, cardIdOf("player", nmA)) = [column |-> "used", direction |-> "desc"]
    /\ Keys(Get(GLOBAL_PLAYER_STATS, nmA)) = <<sBoost, sKaktus>>
    /\ Get(Get(GLOBAL_PLAYER_STATS, nmA), sBoost).used = 5
    /\ Get(Get(GLOBAL_PLAYER_STATS, nmA), sKaktus).used = 10
    /\ LET rows == Get(dom, cardIdOf("player", nmA)).rows
       IN [i \in DOMAIN rows |-> rows[i].name] = <<sKaktus, sBoost>>

\* C22: in every row built from a stat {used, goals}, conv is 0 when used = 0
\* and 100 * goals / used when used > 0; it is a number (its denominator is
\* not 0) and never negative, also where goals exceeds used.
C22_ConvDefined ==
    \A c \in DOMAIN dom :
        LET items == Get(GLOBAL_PLAYER_STATS, dom[c].v.shown)
            rows == dom[c].v.rows
        IN \A r \in DOMAIN rows :
              LET data == Get(items, rows[r].name)
                  conv == rows[r].conv
              IN /\ conv.den > 0
                 /\ conv.num >= 0
                 /\ data.used = 0 => conv.num = 0
                 /\ data.used > 0 => conv.num * data.used = 100 * data.goals * conv.den

\* C22 witness: after a click on "conv" the card shows a row with more goals
\* than uses (5 uses, 10 goals: conv 200) and a row with goals and no use (conv 0)
C22_Witness ==
    /\ lastClick.column = "conv"
    /\ Has(dom, cardIdOf("player", nmA))
    /\ LET rows == Get(dom, cardIdOf("player", nmA)).rows
       IN /\ \E r \in DOMAIN rows :
                /\ rows[r].used = 5
                /\ rows[r].goals = 10
                /\ rows[r].conv.num = 200 * rows[r].conv.den
          /\ \E r \in DOMAIN rows :
                /\ rows[r].used = 0
                /\ rows[r].goals = 5
                /\ rows[r].conv.num = 0

-----------------------------------------------------------------------------
(* The render steps of a load *)

\* processTeam that records no loss
processTeamWinsOnly(teamsMap, players, isWinner) ==
    IF players = NULL \/ Len(players) = 0 THEN teamsMap
    ELSE LET teamId == duoTeamId(players)
             cur == IF Has(teamsMap, teamId) THEN Get(teamsMap, teamId)
                    ELSE [wins |-> 0, losses |-> 0, games |-> 0]
         IN Put(teamsMap, teamId,
                [games |-> cur.games + 1,
                 wins |-> cur.wins + (IF isWinner THEN 1 ELSE 0),
                 losses |-> cur.losses])

\* processTeam(players, isWinner) of renderDuoTable
processTeam(teamsMap, players, isWinner) ==
    IF players = NULL \/ Len(players) = 0 THEN teamsMap
    ELSE LET teamId == duoTeamId(players)
             cur == IF Has(teamsMap, teamId) THEN Get(teamsMap, teamId)
                    ELSE [wins |-> 0, losses |-> 0, games |-> 0]
         IN Put(teamsMap, teamId,
                [games |-> cur.games + 1,
                 wins |-> cur.wins + (IF isWinner THEN 1 ELSE 0),
                 losses |-> cur.losses + (IF isWinner THEN 0 ELSE 1)])

RECURSIVE duoFold(_, _)
duoFold(ms, n) ==
    IF n = 0 THEN <<>>
    ELSE processTeam(processTeam(duoFold(ms, n - 1),
                                 ms[n].team0_players, ms[n].winning_team = 0),
                     ms[n].team1_players, ms[n].winning_team = 1)

\* renderDuoTable: the rows of the duo table, most games first
renderDuoTable(ms) ==
    LET teamsMap == duoFold(ms, Len(ms))
    IN SortDesc([i \in DOMAIN teamsMap |->
                    [key |-> teamsMap[i].v.games, name |-> teamsMap[i].k,
                     wins |-> teamsMap[i].v.wins, losses |-> teamsMap[i].v.losses,
                     games |-> teamsMap[i].v.games]])

\* created_at is an ISO 8601 timestamp with fields of fixed width,
\* "<day>T<hour>:00:00<off>:00": the calendar day (numbered), the hour of
\* that day and the offset from UTC in hours, as written in the string.
\* The rank of the offset's text among the offsets: '+' (43) is below '-' (45),
\* then the digits
offsetRank(off) == IF off < 0 THEN 100 - off ELSE off

\* a > b on two such strings
createdAfter(a, b) ==
    \/ a.day > b.day
    \/ a.day = b.day /\ a.hour > b.hour
    \/ a.day = b.day /\ a.hour = b.hour /\ offsetRank(a.off) > offsetRank(b.off)

\* new Date(ts).toISOString().split('T')[0]: the UTC calendar day of the instant
toISODate(ts) == (ts.day * 24 + ts.hour - ts.off) \div 24

\* matches.reduce((max, m) => m.created_at > max ? m.created_at : max, matches[0].created_at)
RECURSIVE lastMatchDate(_, _)
lastMatchDate(ms, n) ==
    IF n = 0 THEN ms[1].created_at
    ELSE LET max == lastMatchDate(ms, n - 1)
         IN IF createdAfter(ms[n].created_at, max) THEN ms[n].created_at ELSE max

\* lastDay of renderLastDayStats (ms is not empty)
lastDayOf(ms) == toISODate(lastMatchDate(ms, Len(ms)))

\* matches.filter(m => new Date(m.created_at).toISOString().startsWith(lastDay))
lastDayMatchesOf(ms) == SelectSeq(ms, LAMBDA m : toISODate(m.created_at) = lastDayOf(ms))

\* events.filter(e => lastDayMatchIds.has(e.game_id))
lastDayEventsOf(evs, ms) ==
    LET lastDayMatches == lastDayMatchesOf(ms)
        lastDayMatchIds == {lastDayMatches[i].game_id : i \in DOMAIN lastDayMatches}
    IN SelectSeq(evs, LAMBDA e : e.game_id \in lastDayMatchIds)

\* renderLastDayStats without the return for an empty match list: the
\* section is hidden and the last-day components are rendered from nothing
renderLastDayStatsNoReturn(pg, evs, ms) ==
    LET lastDayMatches == IF Len(ms) = 0 THEN <<>> ELSE lastDayMatchesOf(ms)
        lastDayEvents == IF Len(ms) = 0 THEN <<>> ELSE lastDayEventsOf(evs, ms)
        ps == calculatePowerupStats(lastDayEvents)
        teamStats == calculateTeamStatsByEvent(lastDayEvents, lastDayMatches)
        p0 == IF Len(ms) = 0 THEN Put(pg, "last-playday-section", "none")
              ELSE Put(pg, "last-playday-date", lastDayOf(ms))
        p2 == Put(p0, "last-day-scorers-table-body", renderTopScorers(lastDayEvents))
        p3 == Put(p2, "last-day-powerup-leaderboard",
                  renderPowerupLeaderboard(ps.totalUsage))
        p4 == Put(p3, "last-day-chart-fairness", renderFairnessChart(ps.playerStats))
    IN Put(p4, "last-day-chart-team-fairness", renderTeamFairnessChart(teamStats))

\* renderLastDayStats(events, matches): the page after it
renderLastDayStats(pg, evs, ms) ==
    IF Len(ms) = 0 THEN Put(pg, "last-playday-section", "none")
    ELSE LET lastDay == lastDayOf(ms)
             lastDayMatches == lastDayMatchesOf(ms)
             lastDayEvents == lastDayEventsOf(evs, ms)
             ps == calculatePowerupStats(lastDayEvents)
             teamStats == calculateTeamStatsByEvent(lastDayEvents, lastDayMatches)
             p1 == Put(pg, "last-playday-date", lastDay)
             p2 == Put(p1, "last-day-scorers-table-body", renderTopScorers(lastDayEvents))
             p3 == Put(p2, "last-day-powerup-leaderboard",
                       renderPowerupLeaderboard(ps.totalUsage))
             p4 == Put(p3, "last-day-chart-fairness", renderFairnessChart(ps.playerStats))
         IN Put(p4, "last-day-chart-team-fairness", renderTeamFairnessChart(teamStats))

\* the match records after renderLastDayStats: the rosters of the last-day
\* matches were sorted in place by calculateTeamStatsByEvent
matchesAfterLastDay(ms) ==
    IF Len(ms) = 0 THEN ms
    ELSE [i \in DOMAIN ms |->
            IF toISODate(ms[i].created_at) = lastDayOf(ms)
            THEN [ms[i] EXCEPT !.team0_players = rosterAfterSort(@),
                               !.team1_players = rosterAfterSort(@)]
            ELSE ms[i]]

\* renderCharts(events, matches) of the second variant: the page after it
renderCharts(pg, evs, ms) ==
    LET ps == calculatePowerupStats(evs)
        teamStats == calculateTeamStatsByEvent(evs, ms)
        p1 == Put(pg, "powerup-leaderboard", renderPowerupLeaderboard(ps.totalUsage))
        p2 == Put(p1, "chart-fairness", renderFairnessChart(ps.playerStats))
        p3 == Put(p2, "scorers-table-body", renderTopScorers(evs))
    IN Put(p3, "chart-team-fairness", renderTeamFairnessChart(teamStats))

-----------------------------------------------------------------------------
(* Spec: the load cycle of initDashboard, the cards and the sort clicks *)

MaxLoads == 2

ev1 == [game_id |-> 1, team_num |-> 0, player_name |-> nmA,
        powerup_name |-> sKaktus, event_type |-> "Activation"]
ev2 == [game_id |-> 1, team_num |-> 0, player_name |-> nmA,
        powerup_name |-> sMagnet, event_type |-> "Goal"]
mt1 == [game_id |-> 1, team0_players |-> <<nmB, nmA>>, team1_players |-> NULL,
        winning_team |-> 0, created_at |-> [day |-> 1, hour |-> 20, off |-> 0]]

DbEventLists == {<<>>, <<ev1>>, <<ev1, ev2>>}
DbMatchLists == {<<>>, <<mt1>>}

Init ==
    /\ db \in [events : DbEventLists, matches : DbMatchLists]
    /\ events = <<>>
    /\ matches = <<>>
    /\ ret = NoCall
    /\ pc = "idle"
    /\ eventsReq = "none"
    /\ matchesReq = "none"
    /\ alerts = 0
    /\ loads = 0
    /\ GLOBAL_PLAYER_STATS = <<>>
    /\ GLOBAL_TEAM_STATS = <<>>
    /\ CARD_SORT_STATE = <<>>
    /\ dom = <<>>
    /\ lastClick = NoClick
    /\ page = <<>>
    /\ steps = <<>>

cardVars == <<GLOBAL_PLAYER_STATS, GLOBAL_TEAM_STATS, CARD_SORT_STATE, dom, lastClick>>

\* initDashboard up to its await: both requests are created for Promise.all
StartLoad ==
    /\ pc \in {"idle", "done", "failed"}
    /\ loads < MaxLoads
    /\ pc' = "awaiting"
    /\ loads' = loads + 1
    /\ eventsReq' = "pending"
    /\ matchesReq' = "pending"
    /\ steps' = <<>>
    /\ UNCHANGED <<events, matches, ret, alerts, db, page, cardVars>>

\* db.from('powerup_events').select('*') settles with data or with an error
EventsResponse ==
    /\ eventsReq = "pending"
    /\ \E r \in {"ok", "error"} : eventsReq' = r
    /\ UNCHANGED <<events, matches, ret, pc, matchesReq, alerts, loads, db, page, steps,
                   cardVars>>

\* db.from('match_results').select('*') settles with data or with an error
MatchesResponse ==
    /\ matchesReq = "pending"
    /\ \E r \in {"ok", "error"} : matchesReq' = r
    /\ UNCHANGED <<events, matches, ret, pc, eventsReq, alerts, loads, db, page, steps,
                   cardVars>>

\* lines 626-628: renderLastDayStats, renderDuoTable, renderCharts in a row
processAndDisplay(pg, evs, ms) ==
    renderCharts(Put(renderLastDayStats(pg, evs, ms), "duo-table-body", renderDuoTable(ms)),
                 evs, ms)

RenderSteps == <<"renderLastDayStats", "renderDuoTable", "renderCharts">>

\* Resume that does not wait for the match_results request
ResumeEarly ==
    /\ pc = "awaiting"
    /\ eventsReq # "pending"
    /\ IF eventsReq = "error" \/ matchesReq = "error"
       THEN /\ alerts' = alerts + 1
            /\ pc' = "failed"
            /\ UNCHANGED <<events, matches, page, steps>>
       ELSE /\ events' = db.events
            /\ matches' = matchesAfterSort(db.matches)
            /\ page' = processAndDisplay(page, db.events, db.matches)
            /\ steps' = RenderSteps
            /\ alerts' = alerts
            /\ pc' = "done"
    /\ UNCHANGED <<ret, eventsReq, matchesReq, loads, db, cardVars>>

\* Resume without the return after the alert
ResumeNoReturn ==
    /\ pc = "awaiting"
    /\ eventsReq # "pending"
    /\ matchesReq # "pending"
    /\ alerts' = IF eventsReq = "error" \/ matchesReq = "error" THEN alerts + 1 ELSE alerts
    /\ pc' = IF eventsReq = "error" \/ matchesReq = "error" THEN "failed" ELSE "done"
    /\ events' = db.events
    /\ matches' = matchesAfterSort(db.matches)
    /\ page' = processAndDisplay(page, db.events, db.matches)
    /\ steps' = RenderSteps
    /\ UNCHANGED <<ret, eventsReq, matchesReq, loads, db, cardVars>>

\* initDashboard after the await: Promise.all has settled, that is, no request
\* is pending.  An error in either result: one alert, return.  Else the
\* three render steps, in one run of the event loop.
Resume ==
    /\ pc = "awaiting"
    /\ eventsReq # "pending"
    /\ matchesReq # "pending"
    /\ IF eventsReq = "error" \/ matchesReq = "error"
       THEN /\ alerts' = alerts + 1
            /\ pc' = "failed"
            /\ UNCHANGED <<events, matches, page, steps>>
       ELSE /\ events' = db.events
            /\ matches' = matchesAfterSort(db.matches)
            /\ page' = processAndDisplay(page, db.events, db.matches)
            /\ steps' = RenderSteps
            /\ alerts' = alerts
            /\ pc' = "done"
    /\ UNCHANGED <<ret, eventsReq, matchesReq, loads, db, cardVars>>

\* renderPlayerCards(playerStats) with the statistics of the loaded events
ShowPlayerCards ==
    /\ pc = "done"
    /\ LET stats == calculatePowerupStats(events).playerStats
           built == renderCards("player", stats, CARD_SORT_STATE, dom)
       IN /\ GLOBAL_PLAYER_STATS' = stats
          /\ CARD_SORT_STATE' = built.sort
          /\ dom' = built.doc
    /\ lastClick' = NoClick
    /\ UNCHANGED <<events, matches, ret, pc, eventsReq, matchesReq, alerts, loads,
                   GLOBAL_TEAM_STATS, db, page, steps>>

\* renderTeamAnalytics(events, matches) of the second variant: the team
\* statistics of the loaded data, then renderTeamCards
ShowTeamCards ==
    /\ pc = "done"
    /\ LET stats == calculateTeamStatsByEvent(events, matches)
           built == renderCards("team", stats, CARD_SORT_STATE, dom)
       IN /\ GLOBAL_TEAM_STATS' = stats
          /\ CARD_SORT_STATE' = built.sort
          /\ dom' = built.doc
    /\ matches' = matchesAfterSort(matches)
    /\ lastClick' = NoClick
    /\ UNCHANGED <<events, ret, pc, eventsReq, matchesReq, alerts, loads,
                   GLOBAL_PLAYER_STATS, db, page, steps>>

Next ==
    \/ StartLoad
    \/ EventsResponse
    \/ MatchesResponse
    \/ Resume
    \/ ShowPlayerCards
    \/ ShowTeamCards
    \/ SortClick

Spec == Init /\ [][Next]_vars

-----------------------------------------------------------------------------
(* Claims on the sort state and the load cycle *)

\* a step of handleSort: the only steps that change the sort state and leave
\* a click recorded
SortStep == CARD_SORT_STATE' # CARD_SORT_STATE /\ lastClick' # NoClick

\* C5: handleSort on a card with sort state {c, d} and clicked column k keeps
\* c and flips d when k = c, and otherwise sets the column to k with direction
\* asc for "name" and desc for the numeric columns; so the column of the card
\* is the last clicked one and the direction is asc or desc.
C5_ToggleSort ==
    /\ [][SortStep =>
            LET k == lastClick'.column
                old == Get(CARD_SORT_STATE, lastClick'.cardId)
                new == Get(CARD_SORT_STATE', lastClick'.cardId)
            IN IF k = old.column
               THEN /\ new.column = old.column
                    /\ old.direction = "asc" => new.direction = "desc"
                    /\ old.direction = "desc" => new.direction = "asc"
               ELSE /\ new.column = k
                    /\ new.direction = (IF k = "name" THEN "asc" ELSE "desc")]_vars
    /\ [](lastClick # NoClick =>
            /\ Get(CARD_SORT_STATE, lastClick.cardId).column = lastClick.column
            /\ Get(CARD_SORT_STATE, lastClick.cardId).direction \in {"asc", "desc"})

\* C5 witness: "name" was clicked twice in a row on the player card
C5_Witness ==
    /\ lastClick = [cardId |-> cardIdOf("player", nmA), column |-> "name"]
    /\ Get(CARD_SORT_STATE, lastClick.cardId) = [column |-> "name", direction |-> "desc"]

\* C7: a handleSort on card C changes the sort state of C only: the sort
\* state of every other card, GLOBAL_PLAYER_STATS and GLOBAL_TEAM_STATS stay
\* as they are, no request is started and nothing is aggregated again.
C7_SortFrame ==
    [][SortStep =>
          /\ KeySet(CARD_SORT_STATE') = KeySet(CARD_SORT_STATE)
          /\ \A c \in KeySet(CARD_SORT_STATE) \ {lastClick'.cardId} :
                Get(CARD_SORT_STATE', c) = Get(CARD_SORT_STATE, c)
          /\ UNCHANGED <<GLOBAL_PLAYER_STATS, GLOBAL_TEAM_STATS, events, matches, pc,
                         eventsReq, matchesReq, loads, page, steps, alerts>>]_vars

\* C7 witness: while a load is pending the player card was re-sorted and the
\* team card next to it still has the default sort state
C7_Witness ==
    /\ pc = "awaiting"
    /\ lastClick.cardId = cardIdOf("player", nmA)
    /\ Has(CARD_SORT_STATE, cardIdOf("player", nmA))
    /\ Has(CARD_SORT_STATE, cardIdOf("team", teamIdentity(<<nmB, nmA>>)))
    /\ Get(CARD_SORT_STATE, cardIdOf("player", nmA)) # DefaultSort
    /\ Get(CARD_SORT_STATE, cardIdOf("team", teamIdentity(<<nmB, nmA>>))) = DefaultSort
    /\ GLOBAL_TEAM_STATS # <<>>

\* C8: the two requests of a load are issued in the same step, and the render
\* steps of the load run only when both have completed without error.
C8_RenderAfterBothFetches ==
    /\ [][(eventsReq' = "pending" /\ eventsReq # "pending")
             <=> (matchesReq' = "pending" /\ matchesReq # "pending")]_vars
    /\ [](steps # <<>> => eventsReq = "ok" /\ matchesReq = "ok")
    /\ [][steps' # steps /\ steps' # <<>> => eventsReq = "ok" /\ matchesReq = "ok"]_vars

\* C8 witness: a load whose two requests succeeded has run its three steps
C8_Witness ==
    /\ pc = "done"
    /\ eventsReq = "ok"
    /\ matchesReq = "ok"
    /\ steps = RenderSteps
    /\ Has(page, "duo-table-body")

\* C9: a load with a failed request raises exactly one alert and runs no
\* render step; the statistics, every sort state and what is rendered stay
\* as they were.  Other steps raise no alert.
C9_FetchFailure ==
    /\ [][(pc = "awaiting" /\ pc' # "awaiting") =>
             IF eventsReq = "error" \/ matchesReq = "error"
             THEN /\ pc' = "failed"
                  /\ alerts' = alerts + 1
                  /\ UNCHANGED <<GLOBAL_PLAYER_STATS, GLOBAL_TEAM_STATS, CARD_SORT_STATE,
                                 dom, page, steps, events, matches>>
             ELSE pc' = "done" /\ alerts' = alerts]_vars
    /\ [][pc' = pc => alerts' = alerts]_vars
    /\ [](pc = "failed" => steps = <<>>)

\* C9 witness: the second load failed on the events request alone; the
\* cards of the first load are there, one of them re-sorted
C9_Witness ==
    /\ pc = "failed"
    /\ loads = 2
    /\ alerts = 1
    /\ eventsReq = "error"
    /\ matchesReq = "ok"
    /\ steps = <<>>
    /\ Has(dom, cardIdOf("player", nmA))
    /\ Get(CARD_SORT_STATE, cardIdOf("player", nmA)) # DefaultSort
    /\ Has(page, "chart-fairness")

\* the places of the page that renderLastDayStats fills for a last play-day
LastDayKeys == {"last-playday-date", "last-day-scorers-table-body",
                "last-day-powerup-leaderboard", "last-day-chart-fairness",
                "last-day-chart-team-fairness"}

\* C15: with an empty match list renderLastDayStats hides its section and
\* computes no last-day statistic, and the load goes on: the duo table and
\* the lifetime charts are rendered.
C15_EmptyMatchesSkipLastDay ==
    (pc = "done" /\ matches = <<>>) =>
        /\ Has(page, "last-playday-section")
        /\ Get(page, "last-playday-section") = "none"
        /\ \A key \in LastDayKeys : ~Has(page, key)
        /\ steps = RenderSteps
        /\ \A key \in {"duo-table-body", "powerup-leaderboard", "chart-fairness",
                       "scorers-table-body", "chart-team-fairness"} : Has(page, key)

\* C15 witness: a load of two events and no match is done; the section is
\* hidden, the duo table is empty and the top scorers list player A
C15_Witness ==
    /\ pc = "done"
    /\ matches = <<>>
    /\ Len(events) = 2
    /\ Has(page, "last-playday-section")
    /\ Has(page, "duo-table-body")
    /\ Get(page, "duo-table-body") = <<>>
    /\ Has(page, "scorers-table-body")
    /\ Len(Get(page, "scorers-table-body")) = 1

\* a step that builds the cards of one grid again: renderPlayerCards or
\* renderTeamCards, the only steps of a loaded page that leave no click recorded
RebuildStep == pc = "done" /\ pc' = "done" /\ lastClick' = NoClick

\* the cards of a grid in a document
CardsOf(doc, type) == {c \in KeySet(doc) : Get(doc, c).type = type}

\* after the step every entity of the grid has its card, and every card of
\* the grid has the sort state {used, desc} and its rows by used, highest first
Rebuilt(type) ==
    LET stats == IF type = "player" THEN GLOBAL_PLAYER_STATS' ELSE GLOBAL_TEAM_STATS'
    IN /\ \A i \in DOMAIN stats : cardIdOf(type, stats[i].k) \in CardsOf(dom', type)
       /\ \A c \in CardsOf(dom', type) :
             LET card == Get(dom', c)
             IN /\ Has(CARD_SORT_STATE', c)
                /\ Get(CARD_SORT_STATE', c) = [column |-> "used", direction |-> "desc"]
                /\ card.shown = card.entity
                /\ Len(card.rows) = Len(Get(stats, card.entity))
                /\ \A i \in 1..(Len(card.rows) - 1) :
                      card.rows[i].used >= card.rows[i + 1].used

\* the step leaves the cards of the grid and their sort states as they are
Untouched(type) ==
    /\ CardsOf(dom', type) = CardsOf(dom, type)
    /\ \A c \in CardsOf(dom, type) :
          /\ Get(dom', c) = Get(dom, c)
          /\ Get(CARD_SORT_STATE', c) = Get(CARD_SORT_STATE, c)

\* C17: when the cards of a grid are built (again), every card built has the
\* sort state {used, desc}, whatever was toggled before, and its table is
\* rendered in that order; the other grid is left alone; and no step ever
\* removes an entry of CARD_SORT_STATE.
C17_RebuildResetsSort ==
    /\ [][RebuildStep =>
             \/ Rebuilt("player") /\ Untouched("team")
             \/ Rebuilt("team") /\ Untouched("player")]_vars
    /\ [][KeySet(CARD_SORT_STATE) \subseteq KeySet(CARD_SORT_STATE')]_vars

\* C17 witness: after a click on the team card the player cards were built
\* again: no click is recorded, the team card keeps its toggled sort state
\* and the player card has the default one, with its rows by used
C17_Witness ==
    /\ pc = "done"
    /\ lastClick = NoClick
    /\ Has(CARD_SORT_STATE, cardIdOf("player", nmA))
    /\ Has(CARD_SORT_STATE, cardIdOf("team", teamIdentity(<<nmB, nmA>>)))
    /\ Get(CARD_SORT_STATE, cardIdOf("player", nmA)) = DefaultSort
    /\ Get(CARD_SORT_STATE, cardIdOf("team", teamIdentity(<<nmB, nmA>>))) # DefaultSort
    /\ Len(Get(dom, cardIdOf("player", nmA)).rows) = 2

\* rows a and b have the same value in the column
TieOn(a, b, column) ==
    IF column = "name" THEN a.name = b.name
    ELSE IF column = "used" THEN a.used = b.used
    ELSE IF column = "goals" THEN a.goals = b.goals
    ELSE a.conv.num * b.conv.den = b.conv.num * a.conv.den

\* the place of the row of a power-up among the rows displayed
PlaceOf(rows, name) == CHOOSE i \in DOMAIN rows : rows[i].name = name

\* C18: after a handleSort, two rows of the card that tie on the new sort
\* column are in the relative order in which they were displayed just
\* before it.
C18_StableAcrossResorts ==
    [][SortStep =>
          LET c == lastClick'.cardId
              before == Get(dom, c).rows
              after == Get(dom', c).rows
          IN \A i, j \in DOMAIN after :
                (i < j /\ TieOn(after[i], after[j], Get(CARD_SORT_STATE', c).column))
                    => PlaceOf(before, after[i].name) < PlaceOf(before, after[j].name)]_vars

\* C19: renderTopScorers lists every player that has an event, once, with
\* total = number of the player's Goal events and rumble = number of those
\* whose power-up is not "None" (so rumble <= total), in non-increasing order
\* of total; a player without goals is listed with total 0.
C19_TopScorers ==
    ret.fn = "renderTopScorers" =>
        LET rows == ret.val
            goals(P) == {i \in DOMAIN events : /\ events[i].player_name = P
                                               /\ events[i].event_type = "Goal"}
        IN /\ {rows[r].name : r \in DOMAIN rows} = {events[i].player_name : i \in DOMAIN events}
           /\ \A r, q \in DOMAIN rows : rows[r].name = rows[q].name => r = q
           /\ \A r \in DOMAIN rows :
                 /\ rows[r].total = Cardinality(goals(rows[r].name))
                 /\ rows[r].rumble =
                       Cardinality({i \in goals(rows[r].name) : events[i].powerup_name # sNone})
                 /\ rows[r].rumble <= rows[r].total
           /\ \A r \in 1..(Len(rows) - 1) : rows[r].total >= rows[r + 1].total

\* C19 witness: B, whose events come last, scored twice, once without
\* power-up, and is listed before A, who only activated a power-up
C19_Witness ==
    /\ ret.fn = "renderTopScorers"
    /\ Len(events) = 3
    /\ events[1].player_name = nmA
    /\ Len(ret.val) = 2
    /\ ret.val[1].name = nmB
    /\ ret.val[1].total = 2
    /\ ret.val[1].rumble = 1
    /\ ret.val[2].name = nmA
    /\ ret.val[2].total = 0

-----------------------------------------------------------------------------
(* renderRivalries and the duo table of the first variant *)

sVs == <<32,118,115,32>>                            \* " vs "

\* rivalriesStep that credits the win by the side, not by the identity
rivalriesStepBySide(rivalries, m) ==
    LET t0Name == rivalryName(m.team0_players)
        t1Name == rivalryName(m.team1_players)
    IN IF t0Name = <<>> \/ t1Name = <<>> THEN rivalries
       ELSE LET pair == SortStrings(<<t0Name, t1Name>>)
                teamA == pair[1]
                teamB == pair[2]
                rivalryKey == teamA \o sVs \o teamB
                cur == IF Has(rivalries, rivalryKey) THEN Get(rivalries, rivalryKey)
                       ELSE [teamA |-> teamA, teamB |-> teamB,
                             winsA |-> 0, winsB |-> 0, games |-> 0]
            IN Put(rivalries, rivalryKey,
                   [cur EXCEPT !.games = @ + 1,
                               !.winsA = IF m.winning_team = 0 THEN @ + 1 ELSE @,
                               !.winsB = IF m.winning_team = 0 THEN @ ELSE @ + 1])

\* the body of matches.forEach in renderRivalries
rivalriesStep(rivalries, m) ==
    LET t0Name == rivalryName(m.team0_players)
        t1Name == rivalryName(m.team1_players)
    IN IF t0Name = <<>> \/ t1Name = <<>> THEN rivalries
       ELSE LET pair == SortStrings(<<t0Name, t1Name>>)
                teamA == pair[1]
                teamB == pair[2]
                rivalryKey == teamA \o sVs \o teamB
                cur == IF Has(rivalries, rivalryKey) THEN Get(rivalries, rivalryKey)
                       ELSE [teamA |-> teamA, teamB |-> teamB,
                             winsA |-> 0, winsB |-> 0, games |-> 0]
                winnerName == IF m.winning_team = 0 THEN t0Name ELSE t1Name
            IN Put(rivalries, rivalryKey,
                   [cur EXCEPT !.games = @ + 1,
                               !.winsA = IF winnerName = teamA THEN @ + 1 ELSE @,
                               !.winsB = IF winnerName = teamA THEN @ ELSE @ + 1])

RECURSIVE rivalriesFold(_, _)
rivalriesFold(ms, n) ==
    IF n = 0 THEN <<>> ELSE rivalriesStep(rivalriesFold(ms, n - 1), ms[n])

\* renderRivalries: Object.values(rivalries), most games first
renderRivalries(ms) ==
    LET rivalries == rivalriesFold(ms, Len(ms))
    IN SortDesc([i \in DOMAIN rivalries |->
                    [key |-> rivalries[i].v.games,
                     teamA |-> rivalries[i].v.teamA, teamB |-> rivalries[i].v.teamB,
                     winsA |-> rivalries[i].v.winsA, winsB |-> rivalries[i].v.winsB,
                     games |-> rivalries[i].v.games]])

\* renderDuoTable of the first variant: lines 59-86 are the statements of
\* lines 726-745
duoFoldV1(ms, n) == duoFold(ms, n)
renderDuoTableV1(ms) == renderDuoTable(ms)

-----------------------------------------------------------------------------
(* SpecMatches: the aggregations over matches alone, applied to every
   bounded match list.  The i-th match has game_id i. *)

MaxDuoMatches == 2

DuoSide0 == {<<>>, <<nmA, nmB>>, <<nmB, nmA>>, <<nmC>>}
DuoSide1 == {NULL, <<nmB, nmA>>, <<nmC>>}

DuoMatchLists ==
    UNION {{[i \in 1..n |-> [game_id |-> i, team0_players |-> r0[i],
                             team1_players |-> r1[i], winning_team |-> w[i]]] :
               r0 \in [1..n -> DuoSide0], r1 \in [1..n -> DuoSide1], w \in [1..n -> {0, 1}]} :
           n \in 0..MaxDuoMatches}

InitMatches ==
    /\ events = <<>>
    /\ matches \in DuoMatchLists
    /\ ret = NoCall
    /\ PageIdle

CallRenderRivalries ==
    /\ ret = NoCall
    /\ ret' = [fn |-> "renderRivalries", val |-> renderRivalries(matches)]
    /\ matches' = matchesAfterSort(matches)
    /\ UNCHANGED <<events, pageVars>>

\* renderDuoTable: teamsMap after each match, and the rows
CallRenderDuoTable ==
    /\ ret = NoCall
    /\ ret' = [fn |-> "renderDuoTable",
               val |-> [folds |-> [n \in 1..(Len(matches) + 1) |-> duoFold(matches, n - 1)],
                        rows |-> renderDuoTable(matches)]]
    /\ UNCHANGED <<events, matches, pageVars>>

CallRenderDuoTableV1 ==
    /\ ret = NoCall
    /\ ret' = [fn |-> "renderDuoTableV1",
               val |-> [folds |-> [n \in 1..(Len(matches) + 1) |-> duoFoldV1(matches, n - 1)],
                        rows |-> renderDuoTableV1(matches)]]
    /\ UNCHANGED <<events, matches, pageVars>>

NextMatches ==
    \/ CallRenderRivalries
    \/ CallRenderDuoTable
    \/ CallRenderDuoTableV1

SpecMatches == InitMatches /\ [][NextMatches]_vars

-----------------------------------------------------------------------------
(* Claims on the rivalries and the duo table *)

\* the matches both of whose sides have a roster
Playable == {i \in DOMAIN matches : /\ IdentityOf(matches[i].team0_players) # sUnknown
                                    /\ IdentityOf(matches[i].team1_players) # sUnknown}

\* the two identities that met in match i
PairOf(i) == {IdentityOf(matches[i].team0_players), IdentityOf(matches[i].team1_players)}

\* the identity of the winning side of match i
WinnerOf(i) == IdentityOf(RosterOf(matches[i], matches[i].winning_team))

\* C11: the matches between the same two identities, whichever side each
\* played on, are one rivalry record; the record's games = winsA + winsB =
\* number of those matches, winsA = number of those won by a side whose
\* identity is teamA, winsB = number of the others.
C11_RivalrySymmetry ==
    ret.fn = "renderRivalries" =>
        LET recs == ret.val
        IN /\ \A i \in Playable :
                Cardinality({r \in DOMAIN recs : {recs[r].teamA, recs[r].teamB} = PairOf(i)}) = 1
           /\ \A r \in DOMAIN recs :
                LET M == {i \in Playable : PairOf(i) = {recs[r].teamA, recs[r].teamB}}
                IN /\ M # {}
                   /\ recs[r].games = Cardinality(M)
                   /\ recs[r].games = recs[r].winsA + recs[r].winsB
                   /\ recs[r].winsA = Cardinality({i \in M : WinnerOf(i) = recs[r].teamA})
                   /\ recs[r].winsB = Cardinality({i \in M : WinnerOf(i) # recs[r].teamA})

\* C11 witness: (A & B against C, A & B win) and (C against B & A, B & A win)
\* gave the one record A & B / C with winsA = 2, winsB = 0, games = 2
C11_Witness ==
    /\ ret.fn = "renderRivalries"
    /\ Len(matches) = 2
    /\ matches[1].team1_players = <<nmC>>
    /\ matches[2].team0_players = <<nmC>>
    /\ matches[1].winning_team = 0
    /\ matches[2].winning_team = 1
    /\ ret.val = <<[key |-> 2, teamA |-> Join(<<nmA, nmB>>, sAmp), teamB |-> nmC,
                    winsA |-> 2, winsB |-> 0, games |-> 2]>>

\* the sides of the first n matches that have a non-empty roster of identity T
SidesOf(T, n) ==
    {s \in (1..n) \X {0, 1} :
        LET r == RosterOf(matches[s[1]], s[2])
        IN r # NULL /\ r # <<>> /\ IdentityOf(r) = T}

\* C12: after each match is folded in, and in the rows of the table, every
\* duo record has games = wins + losses, and games = number of match sides
\* with a non-empty roster of that identity (wins = those that won).
C12_DuoGames ==
    ret.fn \in {"renderDuoTable", "renderDuoTableV1"} =>
        /\ \A n \in 0..Len(matches) :
              LET teamsMap == ret.val.folds[n + 1]
              IN /\ UniqueKeys(teamsMap)
                 /\ \A i \in 1..n, side \in {0, 1} :
                       LET r == RosterOf(matches[i], side)
                       IN (r # NULL /\ r # <<>>) => Has(teamsMap, IdentityOf(r))
                 /\ \A t \in DOMAIN teamsMap :
                       LET rec == teamsMap[t].v
                           S == SidesOf(teamsMap[t].k, n)
                       IN /\ rec.games = rec.wins + rec.losses
                          /\ rec.games = Cardinality(S)
                          /\ rec.wins =
                                Cardinality({s \in S : matches[s[1]].winning_team = s[2]})
        /\ LET final == ret.val.folds[Len(matches) + 1]
               rows == ret.val.rows
           IN /\ Len(rows) = Len(final)
              /\ \A t \in DOMAIN final :
                    \E r \in DOMAIN rows :
                       /\ rows[r].name = final[t].k
                       /\ rows[r].games = final[t].v.games
                       /\ rows[r].wins = final[t].v.wins
                       /\ rows[r].losses = final[t].v.losses
              /\ \A r \in DOMAIN rows : rows[r].games = rows[r].wins + rows[r].losses

\* C12 witness: A & B played two matches, under two arrangements of the
\* roster, won one and lost one
C12_Witness ==
    /\ ret.fn = "renderDuoTable"
    /\ Len(matches) = 2
    /\ matches[1].team0_players = <<nmB, nmA>>
    /\ matches[2].team0_players = <<nmA, nmB>>
    /\ \E r \in DOMAIN ret.val.rows :
          /\ ret.val.rows[r].name = Join(<<nmA, nmB>>, sAmp)
          /\ ret.val.rows[r].games = 2
          /\ ret.val.rows[r].wins = 1
          /\ ret.val.rows[r].losses = 1

\* C20: in every rivalry record teamA is strictly less than teamB, and the
\* records are listed by games, highest first.
C20_RivalryOrder ==
    ret.fn = "renderRivalries" =>
        /\ \A r \in DOMAIN ret.val : StrLess(ret.val[r].teamA, ret.val[r].teamB)
        /\ \A r \in 1..(Len(ret.val) - 1) : ret.val[r].games >= ret.val[r + 1].games

-----------------------------------------------------------------------------
(* SpecLastDay: renderLastDayStats applied to every bounded pair of a match
   list and an event list with timestamps.  The i-th match has game_id i. *)

MaxDayMatches == 2
MaxDayEvents == 1

\* timestamps of two calendar days, early and late in the day, written with
\* the offsets -02:00, +00:00 and +02:00
Stamps == [day : {1, 2}, hour : {1, 23}, off : {-2, 0, 2}]
EventStamps == [day : {1, 2}, hour : {23}, off : {0}]

DayMatchLists ==
    UNION {{[i \in 1..n |-> [game_id |-> i, team0_players |-> <<nmB, nmA>>,
                             team1_players |-> <<nmC>>, winning_team |-> 0,
                             created_at |-> ts[i]]] :
               ts \in [1..n -> Stamps]} :
           n \in 0..MaxDayMatches}

\* events of game 1, game 2 or a game that has no match
DayEvents ==
    [game_id : {1, 2, 3}, team_num : {0}, player_name : {nmA}, powerup_name : {sKaktus},
     event_type : {"Activation"}, created_at : EventStamps]

InitLastDay ==
    /\ events \in BSeq(DayEvents, MaxDayEvents)
    /\ matches \in DayMatchLists
    /\ ret = NoCall
    /\ PageIdle

\* renderLastDayStats(events, matches): the day key and the two windows it
\* computes (the window of matches holds the match records themselves, so
\* with their rosters as sorted), and the page it renders
CallRenderLastDayStats ==
    /\ ret = NoCall
    /\ ret' = [fn |-> "renderLastDayStats",
               val |-> IF Len(matches) = 0 THEN [hidden |-> TRUE]
                       ELSE [hidden |-> FALSE,
                             lastDay |-> lastDayOf(matches),
                             lastDayMatches |-> lastDayMatchesOf(matchesAfterLastDay(matches)),
                             lastDayEvents |-> lastDayEventsOf(events, matches)]]
    /\ page' = renderLastDayStats(page, events, matches)
    /\ matches' = matchesAfterLastDay(matches)
    /\ UNCHANGED <<events, pc, eventsReq, matchesReq, alerts, loads, GLOBAL_PLAYER_STATS,
                   GLOBAL_TEAM_STATS, CARD_SORT_STATE, dom, lastClick, db, steps>>

NextLastDay == CallRenderLastDayStats

SpecLastDay == InitLastDay /\ [][NextLastDay]_vars

-----------------------------------------------------------------------------
(* Claims on the last play-day *)

\* the instant of a timestamp, in hours of UTC, and its UTC calendar day
InstantOf(ts) == ts.day * 24 + ts.hour - ts.off
UtcDayOf(ts) == InstantOf(ts) \div 24

\* C13: for a non-empty match list the last play-day key is the UTC calendar
\* day of the chronologically latest created_at of the matches.
C13_LastPlayDay ==
    (ret.fn = "renderLastDayStats" /\ matches # <<>>) =>
        \E i \in DOMAIN matches :
            /\ \A j \in DOMAIN matches :
                  InstantOf(matches[j].created_at) <= InstantOf(matches[i].created_at)
            /\ ret.val.lastDay = UtcDayOf(matches[i].created_at)

\* C14: the last-day window holds exactly the matches whose created_at falls
\* on the last play-day key, and exactly the events whose own created_at
\* falls on it.
C14_WindowByOwnDate ==
    (ret.fn = "renderLastDayStats" /\ matches # <<>>) =>
        /\ ret.val.lastDayMatches =
              SelectSeq(matches, LAMBDA m : UtcDayOf(m.created_at) = ret.val.lastDay)
        /\ ret.val.lastDayEvents =
              SelectSeq(events, LAMBDA e : UtcDayOf(e.created_at) = ret.val.lastDay)

-----------------------------------------------------------------------------
(* renderTopCards of the first variant *)

\* String(n) for an integer n >= 0
RECURSIVE digitsOf(_)
digitsOf(n) == IF n < 10 THEN <<48 + n>> ELSE digitsOf(n \div 10) \o <<48 + (n % 10)>>

\* (totalDelay / length).toFixed(2), delays counted in hundredths of a
\* second: the quotient rounded to the nearest hundredth, the larger on a
\* tie, written with two decimals
toFixed2(totalDelay, length) ==
    LET n == (2 * totalDelay + length) \div (2 * length)
    IN digitsOf(n \div 100) \o <<46>> \o <<48 + ((n % 100) \div 10), 48 + (n % 10)>>

\* e.delay || 0: delay is <<d>>, or <<>> when the event has none
delayOr0(e) == IF e.delay = <<>> THEN 0 ELSE e.delay[1]

RECURSIVE sumDelay(_)
sumDelay(evs) == IF evs = <<>> THEN 0 ELSE delayOr0(Head(evs)) + sumDelay(Tail(evs))

sZeroAvg == <<48,46,48,48>>                         \* "0.00"
sNaN == <<78,97,78>>                                \* "NaN"
sSeconds == <<115>>                                 \* "s"

\* renderTopCardsV1 without the test of rumbleGoals.length: 0 / 0 is NaN
renderTopCardsNoGuardV1(evs, ms) ==
    LET rumbleGoals == SelectSeq(evs, LAMBDA e : e.event_type = "Goal" /\ e.powerup_name # sNone)
        avgDelay == IF Len(rumbleGoals) # 0 THEN toFixed2(sumDelay(rumbleGoals), Len(rumbleGoals))
                    ELSE sNaN
    IN [totalMatches |-> Len(ms),
        totalPowerups |-> Len(SelectSeq(evs, LAMBDA e : e.event_type = "Activation")),
        totalRumbleGoals |-> Len(rumbleGoals),
        avgDelay |-> avgDelay \o sSeconds]

\* renderTopCards(events, matches): the four texts it sets
renderTopCardsV1(evs, ms) ==
    LET rumbleGoals == SelectSeq(evs, LAMBDA e : e.event_type = "Goal" /\ e.powerup_name # sNone)
        avgDelay == IF Len(rumbleGoals) # 0 THEN toFixed2(sumDelay(rumbleGoals), Len(rumbleGoals))
                    ELSE sZeroAvg
    IN [totalMatches |-> Len(ms),
        totalPowerups |-> Len(SelectSeq(evs, LAMBDA e : e.event_type = "Activation")),
        totalRumbleGoals |-> Len(rumbleGoals),
        avgDelay |-> avgDelay \o sSeconds]

-----------------------------------------------------------------------------
(* SpecDegenerate: every aggregation applied to an empty event list with
   any bounded match list, and to an empty match list with any bounded
   event list *)

MaxDegenerateEvents == 2
MaxDegenerateMatches == 1

\* delays of 1.25 s and none
DegenerateEvents ==
    [game_id : {1}, team_num : {0, 1}, player_name : {nmA}, powerup_name : {sKaktus, sNone},
     event_type : EventTypes, delay : {<<>>, <<125>>}]

DegenerateMatchLists ==
    UNION {{[i \in 1..n |-> [game_id |-> i, team0_players |-> r0[i],
                             team1_players |-> r1[i], winning_team |-> 0]] :
               r0 \in [1..n -> {NULL, <<nmB, nmA>>}], r1 \in [1..n -> {<<>>, <<nmC>>}]} :
           n \in 0..MaxDegenerateMatches}

InitDegenerate ==
    /\ events \in BSeq(DegenerateEvents, MaxDegenerateEvents)
    /\ matches \in DegenerateMatchLists
    /\ events = <<>> \/ matches = <<>>
    /\ ret = NoCall
    /\ PageIdle

CallRenderTopCardsV1 ==
    /\ ret = NoCall
    /\ ret' = [fn |-> "renderTopCardsV1", val |-> renderTopCardsV1(events, matches)]
    /\ UNCHANGED <<events, matches, pageVars>>

\* renderTeamFairnessChart('chart-team-fairness', teamStats) as renderCharts calls it
CallRenderTeamFairnessChart ==
    /\ ret = NoCall
    /\ ret' = [fn |-> "renderTeamFairnessChart",
               val |-> renderTeamFairnessChart(calculateTeamStatsByEvent(events, matches))]
    /\ matches' = matchesAfterSort(matches)
    /\ UNCHANGED <<events, pageVars>>

NextDegenerate ==
    \/ CallCalculatePowerupStats
    \/ CallCalculateTeamStatsByEvent
    \/ CallRenderTopScorers
    \/ CallRenderTopCardsV1
    \/ CallRenderDuoTable
    \/ CallRenderRivalries
    \/ CallRenderFairnessChart
    \/ CallRenderTeamFairnessChart

SpecDegenerate == InitDegenerate /\ [][NextDegenerate]_vars

\* every percentage of a fairness chart is 0
AllPctZero(chart) ==
    \A p \in DOMAIN chart.datasets :
        \A i \in DOMAIN chart.datasets[p].data : chart.datasets[p].data[i].num = 0

-----------------------------------------------------------------------------
(* SpecCards: the dashboard after a load of bounded events and matches with
   up to MaxCards players and teams; the cards are built by renderPlayerCards and
   renderTeamAnalytics, then any sequence of handleSort calls *)

MaxCardEvents == 2
MaxCardMatches == 1
MaxCards == 2

nmASpB == <<65, 32, 66>>                            \* "A B"
CardPlayers == {nmA, nmAB, nmASpB}

CardEvents ==
    [game_id : {1}, team_num : {0}, player_name : CardPlayers,
     powerup_name : {sKaktus}, event_type : EventTypes]

CardMatchLists ==
    UNION {{[i \in 1..n |-> [game_id |-> i, team0_players |-> <<nmB, nmA>>,
                             team1_players |-> r1[i], winning_team |-> 0,
                             created_at |-> [day |-> 1, hour |-> 20, off |-> 0]]] :
               r1 \in [1..n -> {NULL, <<nmAB>>}]} :
           n \in 0..MaxCardMatches}

\* the players and the teams that get a card
CardEntities(evs, ms) ==
    Len(calculatePowerupStats(evs).playerStats) + Len(calculateTeamStatsByEvent(evs, ms))

\* the state initDashboard leaves after a successful load of data with at
\* most MaxCards players and teams, no card built yet
InitCards ==
    /\ events \in BSeq(CardEvents, MaxCardEvents)
    /\ matches \in {matchesAfterSort(ms) : ms \in CardMatchLists}
    /\ CardEntities(events, matches) <= MaxCards
    /\ db = [events |-> events, matches |-> matches]
    /\ ret = NoCall
    /\ pc = "done"
    /\ eventsReq = "ok"
    /\ matchesReq = "ok"
    /\ alerts = 0
    /\ loads = 1
    /\ GLOBAL_PLAYER_STATS = <<>>
    /\ GLOBAL_TEAM_STATS = <<>>
    /\ CARD_SORT_STATE = <<>>
    /\ dom = <<>>
    /\ lastClick = NoClick
    /\ page = processAndDisplay(<<>>, events, matches)
    /\ steps = RenderSteps

NextCards ==
    \/ ShowPlayerCards
    \/ ShowTeamCards
    \/ SortClick

SpecCards == InitCards /\ [][NextCards]_vars

\* C23: after handleSort on a card, the rows in the card's table are those of
\* the entity the card was created for.
C23_SortShowsOwnEntity ==
    lastClick # NoClick =>
        LET card == Get(dom, lastClick.cardId)
        IN card.shown = card.entity

\* C24: two distinct displayed entities of one type never have the same card
\* identifier, so each entity's card has a sort state of its own.
C24_DistinctCardIds ==
    /\ \A i, j \in DOMAIN GLOBAL_PLAYER_STATS :
          i # j => cardIdOf("player", GLOBAL_PLAYER_STATS[i].k)
                      # cardIdOf("player", GLOBAL_PLAYER_STATS[j].k)
    /\ \A i, j \in DOMAIN GLOBAL_TEAM_STATS :
          i # j => cardIdOf("team", GLOBAL_TEAM_STATS[i].k)
                      # cardIdOf("team", GLOBAL_TEAM_STATS[j].k)

====
